---- MODULE Spec2Model ----
(***************************************************************************)
(* Quantified regular expressions (src/main.rs): the expression algebra    *)
(* QRE<D,C>, its acceptance-value operator epsilon, its derivative deriv,  *)
(* and the incremental solver Solve {state, max_workingset}.               *)
(*                                                                         *)
(* Items (type D) are f64 items with integral values, written as integers. *)
(* Values (type C = f64) are written as exact rationals <<n, d>> in lowest *)
(* terms with d > 0; <<0,0>> is NaN, <<1,0>> is +inf and <<-1,0>> is -inf. *)
(* Function pointers (fn(&D)->bool, fn(&D)->C, fn(C,C)->C) are written as  *)
(* the name of the function; the closure `move |x| op(a.clone(), x)` is    *)
(* written as the record [op |-> op, a |-> a].                             *)
(***************************************************************************)
EXTENDS Integers, Sequences, FiniteSets

VARIABLES query, state, max_workingset, fed, last, ret, calls

vars == <<query, state, max_workingset, fed, last, ret, calls>>

(***************************************************************************)
(* Bounds of the exploration: the largest item and the longest sequence a   *)
(* caller feeds, the length of the prefix explored of main's loop          *)
(* `for x in 0..1001`, and the number of output calls between two updates. *)
(***************************************************************************)
MaxItem == 2
MaxFeed == 3
SumLen == 101
MaxCalls == 2

(***************************************************************************)
(* f64 values.                                                             *)
(***************************************************************************)
Abs(n) == IF n < 0 THEN -n ELSE n

Sign(n) == IF n < 0 THEN -1 ELSE IF n > 0 THEN 1 ELSE 0

RECURSIVE Gcd(_, _)
Gcd(a, b) == IF b = 0 THEN a ELSE Gcd(b, a % b)

F64(n, d) ==
    IF d = 0 THEN <<Sign(n), 0>>
    ELSE LET g == Gcd(Abs(n), Abs(d))
         IN  <<Sign(d) * (n \div g), Abs(d) \div g>>

NaN == <<0, 0>>

IsNaN(x) == x = NaN

IsFinite(x) == x[2] > 0

Lt(x, y) == x[1] * y[2] < y[1] * x[2]

true_f64(x) == TRUE

pos_f64(x) == x > 0

id_f64(x) == F64(x, 1)

zero(x) == F64(0, 1)

one_f64(x) == F64(1, 1)

sum_f64(x, y) ==
    IF IsNaN(x) \/ IsNaN(y) THEN NaN
    ELSE IF ~IsFinite(x) /\ ~IsFinite(y) THEN (IF x = y THEN x ELSE NaN)
    ELSE IF ~IsFinite(x) THEN x
    ELSE IF ~IsFinite(y) THEN y
    ELSE F64(x[1] * y[2] + y[1] * x[2], x[2] * y[2])

div_f64(x, y) ==
    IF IsNaN(x) \/ IsNaN(y) THEN NaN
    ELSE IF ~IsFinite(x) /\ ~IsFinite(y) THEN NaN
    ELSE IF ~IsFinite(x) THEN <<x[1] * (IF y[1] < 0 THEN -1 ELSE 1), 0>>
    ELSE IF ~IsFinite(y) THEN F64(0, 1)
    ELSE F64(x[1] * y[2], x[2] * y[1])

min_f64(x, y) ==
    IF IsNaN(x) THEN y ELSE IF IsNaN(y) THEN x ELSE IF Lt(y, x) THEN y ELSE x

max_f64(x, y) ==
    IF IsNaN(x) THEN y ELSE IF IsNaN(y) THEN x ELSE IF Lt(x, y) THEN y ELSE x

pi2(x, y) == y

avg(x, y) == div_f64(sum_f64(x, y), F64(2, 1))

(***************************************************************************)
(* Calls through the function fields of an expression.                     *)
(***************************************************************************)
phi_call(phi, d) ==
    CASE phi = "true_f64" -> true_f64(d)
      [] phi = "pos_f64"  -> pos_f64(d)

op_call(op, d) ==
    CASE op = "id_f64"  -> id_f64(d)
      [] op = "zero"    -> zero(d)
      [] op = "one_f64" -> one_f64(d)

bin_call(op, x, y) ==
    CASE op = "sum_f64" -> sum_f64(x, y)
      [] op = "div_f64" -> div_f64(x, y)
      [] op = "min_f64" -> min_f64(x, y)
      [] op = "max_f64" -> max_f64(x, y)
      [] op = "pi2"     -> pi2(x, y)
      [] op = "avg"     -> avg(x, y)

closure(op, a) == [op |-> op, a |-> a]

\* move |x| op(a.clone(), x)
closure_call_swapped(cl, x) == bin_call(cl.op, x, cl.a)

closure_call(cl, x) == bin_call(cl.op, cl.a, x)

(***************************************************************************)
(* enum QRE<D,C>                                                           *)
(***************************************************************************)
Bot == [t |-> "Bot"]

Eps(c) == [t |-> "Eps", c |-> c]

Sat(phi, op) == [t |-> "Sat", phi |-> phi, op |-> op]

Choice(v) == [t |-> "Choice", v |-> v]

Split(f, g, op) == [t |-> "Split", f |-> f, g |-> g, op |-> op]

Iter(init, body, op) == [t |-> "Iter", init |-> init, body |-> body, op |-> op]

App(f, op) == [t |-> "App", f |-> f, op |-> op]

Combine(f, g, op) == [t |-> "Combine", f |-> f, g |-> g, op |-> op]

(***************************************************************************)
(* fn epsilon                                                              *)
(***************************************************************************)
\* for x in xs { for y in ys { acc.push(op(x, y)) } }
pairwise(xs, ys, op) ==
    [k \in 1..(Len(xs) * Len(ys)) |->
        bin_call(op, xs[((k - 1) \div Len(ys)) + 1], ys[((k - 1) % Len(ys)) + 1])]

RECURSIVE epsilon(_)
RECURSIVE epsilon_all(_)

\* Split{f, g, op}
epsilon_Split_self(q) == pairwise(epsilon(q.f), epsilon(q.f), q.op)

epsilon_Split(q) == pairwise(epsilon(q.f), epsilon(q.g), q.op)

\* Iter{init, body, op} => epsilon(&*init)
epsilon_Iter_body(q) == epsilon(q.body)

epsilon_Iter(q) == epsilon(q.init)

epsilon(q) ==
    CASE q.t = "Bot"     -> <<>>
      [] q.t = "Eps"     -> <<q.c>>
      [] q.t = "Sat"     -> <<>>
      [] q.t = "Choice"  -> epsilon_all(q.v)
      [] q.t = "Split"   -> epsilon_Split(q)
      [] q.t = "Iter"    -> epsilon_Iter(q)
      [] q.t = "App"     -> LET xs == epsilon(q.f)
                            IN  [k \in 1..Len(xs) |-> closure_call(q.op, xs[k])]
      [] q.t = "Combine" -> pairwise(epsilon(q.f), epsilon(q.g), q.op)

\* for q in v { vnew.append(&mut epsilon(q)) }
epsilon_all(v) ==
    IF v = <<>> THEN <<>> ELSE epsilon(Head(v)) \o epsilon_all(Tail(v))

(***************************************************************************)
(* fn deriv                                                                *)
(***************************************************************************)
RECURSIVE deriv(_, _)
RECURSIVE deriv_all(_, _)

\* Bot => vec![Bot]
deriv_Bot(q, d) == <<Bot>>

\* Eps{..} => vec![Bot]
deriv_Eps_kept(q, d) == <<q>>

deriv_Eps(q, d) == <<Bot>>

\* Sat{phi, op} if phi(d) => vec![Eps{c: op(d)}],  Sat{phi, ..} => vec![Bot]
deriv_Sat_unguarded(q, d) == <<Eps(op_call(q.op, d))>>

deriv_Sat_pruned(q, d) ==
    IF phi_call(q.phi, d) THEN <<Eps(op_call(q.op, d))>> ELSE <<>>

deriv_Sat(q, d) ==
    IF phi_call(q.phi, d) THEN <<Eps(op_call(q.op, d))>> ELSE <<Bot>>

\* Choice{v}
deriv_Choice_first(q, d) ==
    IF q.v = <<>> THEN <<>> ELSE deriv(Head(q.v), d)

deriv_Choice(q, d) == deriv_all(q.v, d)

\* Split{f, g, op}
deriv_Split_noresidual(q, d) ==
    LET as == epsilon(q.f)
    IN  [k \in 1..Len(as) |->
            App(Choice(deriv(q.g, d)), closure(q.op, as[k]))]

deriv_Split_lockstep(q, d) ==
    LET as == epsilon(q.f)
    IN  [k \in 1..Len(as) |->
            App(Choice(deriv(q.g, d)), closure(q.op, as[k]))]
        \o <<Split(Choice(deriv(q.f, d)), Choice(deriv(q.g, d)), q.op)>>

deriv_Split(q, d) ==
    LET as == epsilon(q.f)
    IN  [k \in 1..Len(as) |->
            App(Choice(deriv(q.g, d)), closure(q.op, as[k]))]
        \o <<Split(Choice(deriv(q.f, d)), q.g, q.op)>>

\* Iter{init, body, op}
deriv_Iter_unfolded(q, d) ==
    LET bs == epsilon(q.init)
    IN  [k \in 1..Len(bs) |->
            Iter(Choice(deriv(q.body, d)), q.body, q.op)]
        \o <<Iter(Choice(deriv(q.init, d)), q.body, q.op)>>

deriv_Iter_wrapped(q, d) ==
    LET bs == epsilon(q.init)
    IN  [k \in 1..Len(bs) |->
            Iter(Choice(<<App(Choice(deriv(q.body, d)), closure(q.op, bs[k]))>>),
                 q.body, q.op)]
        \o <<Iter(Choice(deriv(q.init, d)), q.body, q.op)>>

deriv_Iter(q, d) ==
    LET bs == epsilon(q.init)
    IN  [k \in 1..Len(bs) |->
            Iter(App(Choice(deriv(q.body, d)), closure(q.op, bs[k])),
                 q.body, q.op)]
        \o <<Iter(Choice(deriv(q.init, d)), q.body, q.op)>>

\* App{f, op}
deriv_App(q, d) == <<App(Choice(deriv(q.f, d)), q.op)>>

\* Combine{f, g, op}
deriv_Combine_interleaved(q, d) ==
    <<Combine(Choice(deriv(q.f, d)), q.g, q.op),
      Combine(q.f, Choice(deriv(q.g, d)), q.op)>>

deriv_Combine(q, d) ==
    <<Combine(Choice(deriv(q.f, d)), Choice(deriv(q.g, d)), q.op)>>

deriv(q, d) ==
    CASE q.t = "Bot"     -> deriv_Bot(q, d)
      [] q.t = "Eps"     -> deriv_Eps(q, d)
      [] q.t = "Sat"     -> deriv_Sat(q, d)
      [] q.t = "Choice"  -> deriv_Choice(q, d)
      [] q.t = "Split"   -> deriv_Split(q, d)
      [] q.t = "Iter"    -> deriv_Iter(q, d)
      [] q.t = "App"     -> deriv_App(q, d)
      [] q.t = "Combine" -> deriv_Combine(q, d)

\* for q in v { vnew.append(&mut deriv(q, d)) }
deriv_all(v, d) ==
    IF v = <<>> THEN <<>> ELSE deriv(Head(v), d) \o deriv_all(Tail(v), d)

(***************************************************************************)
(* Queries handed to Solve::new.  The demonstration queries are those of   *)
(* example14, running_avg and main; the others are every expression of     *)
(* depth at most two over a small vocabulary of caller functions.          *)
(***************************************************************************)
Items == 0..MaxItem

Phis == {"true_f64", "pos_f64"}

Ops == {"id_f64", "zero", "one_f64"}

Bins == {"sum_f64", "pi2"}

EpsVals == {F64(0, 1), F64(1, 1)}

Closures == {closure(op, a) : op \in Bins, a \in EpsVals}

Leaves ==
    {Bot} \cup {Eps(c) : c \in EpsVals}
          \cup {Sat(phi, op) : phi \in Phis, op \in Ops}

Pairs(S) == {<<a, b>> : a \in S, b \in S}

Level2 ==
    {Choice(v) : v \in {<<>>} \cup {<<a>> : a \in Leaves} \cup Pairs(Leaves)}
    \cup {Split(p[1], p[2], op) : p \in Pairs(Leaves), op \in Bins}
    \cup {Iter(p[1], p[2], op) : p \in Pairs(Leaves), op \in Bins}
    \cup {App(f, cl) : f \in Leaves, cl \in Closures}
    \cup {Combine(p[1], p[2], op) : p \in Pairs(Leaves), op \in Bins}

\* fn example14: the query r
example14_r ==
    LET f  == Sat("true_f64", "id_f64")
        h1 == Split(f, f, "max_f64")
        h2 == Split(f, f, "min_f64")
        g  == Iter(Eps(F64(0, 1)), Sat("true_f64", "zero"), "pi2")
        k1 == Split(g, h1, "pi2")
        k2 == Split(g, h2, "pi2")
    IN  Combine(k1, k2, "avg")

\* fn running_avg: the query avg
running_avg_q ==
    LET z   == Sat("true_f64", "zero")
        sum == Iter(z, Sat("true_f64", "id_f64"), "sum_f64")
        len == Iter(z, Sat("true_f64", "one_f64"), "sum_f64")
    IN  Combine(sum, len, "div_f64")

\* fn main: the query r of the T(1000) computation
main_r ==
    LET f == Sat("true_f64", "id_f64")
    IN  Iter(f, f, "sum_f64")

Demos == {example14_r, running_avg_q, main_r}

\* Loops whose init is an immediate value, over every body of depth two.
IterEps == {Iter(Eps(F64(1, 1)), b, "sum_f64") : b \in Level2}

\* Deeper queries built from Bot, Eps, Sat, App and Combine only.
Pure2 == {q \in Level2 : q.t \in {"App", "Combine"}}

Pure3 ==
    {App(q, closure("sum_f64", F64(1, 1))) : q \in Pure2}
    \cup {Combine(q, Sat("true_f64", "id_f64"), "sum_f64") : q \in Pure2}
    \cup {Combine(Sat("pos_f64", "one_f64"), q, "pi2") : q \in Pure2}

\* Alternatives with zero, one, two and three immediate values.
ChoiceEps ==
    {Choice(<<>>),
     Choice(<<Eps(F64(1, 1))>>),
     Choice(<<Eps(F64(0, 1)), Eps(F64(1, 1))>>),
     Choice(<<Eps(F64(1, 1)), Eps(F64(0, 1)), Eps(F64(1, 1))>>)}

\* Sequences and loops whose first part has several immediate values.
SplitChoice == {Split(p[1], p[2], op) : p \in Pairs(ChoiceEps), op \in Bins}

IterChoice ==
    {Iter(a, b, op) : a \in ChoiceEps,
                      b \in {Sat("true_f64", "id_f64"), Eps(F64(1, 1))},
                      op \in Bins}

\* Alternatives that contain empty alternatives.
NestedChoice ==
    {Choice(<<Choice(<<>>)>>),
     Choice(<<Choice(<<>>), Choice(<<>>)>>),
     Choice(<<Choice(<<>>), Sat("true_f64", "id_f64")>>)}

Queries ==
    Leaves \cup Level2 \cup Demos \cup IterEps \cup Pure3
           \cup SplitChoice \cup IterChoice \cup NestedChoice

AvgLen == 101

\* The items each demonstration feeds to its solver, in order.
Script(q) ==
    CASE q = example14_r   -> <<5, 4, 3, 2, 1>>
      [] q = running_avg_q -> [i \in 1..AvgLen |-> i - 1]
      [] q = main_r        -> [i \in 1..SumLen |-> i - 1]

IsPrefix(s, t) == Len(s) <= Len(t) /\ s = SubSeq(t, 1, Len(s))

(***************************************************************************)
(* struct Solve                                                            *)
(***************************************************************************)
Undefined == <<"Err", "undefined">>

Ok(c) == <<"Ok", c>>

\* Solve::new
Init ==
    /\ query \in Queries
    /\ state = <<query>>
    /\ max_workingset = 0
    /\ fed = <<>>
    /\ last = "new"
    /\ ret = <<"Self">>
    /\ calls = 0

\* Solve::update
update_merged(d) ==
    LET vnew == state \o deriv_all(state, d)
        len  == Len(vnew)
    IN  /\ state' = vnew
        /\ max_workingset' = IF len > max_workingset THEN len ELSE max_workingset
        /\ fed' = Append(fed, d)
        /\ last' = "update"
        /\ ret' = <<"Unit">>
        /\ calls' = 0
        /\ UNCHANGED query

update(d) ==
    LET vnew == deriv_all(state, d)
        len  == Len(vnew)
    IN  /\ state' = vnew
        /\ max_workingset' = IF len > max_workingset THEN len ELSE max_workingset
        /\ fed' = Append(fed, d)
        /\ last' = "update"
        /\ ret' = <<"Unit">>
        /\ calls' = 0
        /\ UNCHANGED query

\* Solve::output
output_dedup ==
    LET cnew == epsilon_all(state)
        vals == {cnew[k] : k \in 1..Len(cnew)}
    IN  /\ calls < MaxCalls
        /\ ret' = IF Cardinality(vals) = 1 THEN Ok(cnew[1]) ELSE Undefined
        /\ last' = "output"
        /\ calls' = calls + 1
        /\ UNCHANGED <<query, state, max_workingset, fed>>

output_drain ==
    LET cnew == epsilon_all(state)
    IN  /\ calls < MaxCalls
        /\ ret' = IF Len(cnew) = 1 THEN Ok(cnew[1]) ELSE Undefined
        /\ last' = "output"
        /\ calls' = calls + 1
        /\ state' = <<>>
        /\ UNCHANGED <<query, max_workingset, fed>>

output ==
    LET cnew == epsilon_all(state)
    IN  /\ calls < MaxCalls
        /\ ret' = IF Len(cnew) = 1 THEN Ok(cnew[1]) ELSE Undefined
        /\ last' = "output"
        /\ calls' = calls + 1
        /\ UNCHANGED <<query, state, max_workingset, fed>>

\* A caller feeding any item.
Feed == \E d \in Items : Len(fed) < MaxFeed /\ update(d)

\* The loops of example14, running_avg and main.
Run ==
    /\ query \in Demos
    /\ Len(fed) < Len(Script(query))
    /\ IsPrefix(fed, Script(query))
    /\ update(Script(query)[Len(fed) + 1])

Next == Feed \/ Run \/ output

Spec == Init /\ [][Next]_vars

(***************************************************************************)
(* Properties.                                                             *)
(***************************************************************************)
\* The epsilon values of the whole working set, in order.
Results == epsilon_all(state)

AllEqual(xs) == \A i \in 1..Len(xs) : xs[i] = xs[1]

\* C1: after value() the answer is Ok(v) exactly when the epsilon values of
\* the working set are the one-element list <<v>>; with no value, or with two
\* or more values (equal or not), the answer is the Undefined error.
C1_ValueDefinedIffSingle ==
    last = "output" =>
        /\ (Len(Results) = 1 => ret = Ok(Results[1]))
        /\ (Len(Results) # 1 => ret = Undefined)
        /\ (ret[1] = "Ok" => Results = <<ret[2]>>)

\* value() was called with two or more equal epsilon values and failed.
C1_Witness ==
    /\ last = "output"
    /\ Len(Results) >= 2
    /\ AllEqual(Results)
    /\ ret = Undefined

\* The residuals of the elements s[1..i] take this many places.
RECURSIVE Offset(_, _, _)
Offset(s, d, i) == IF i = 0 THEN 0 ELSE Offset(s, d, i - 1) + Len(deriv(s[i], d))

\* t is the residuals of s[1], then those of s[2], ..., and nothing else.
IsFlatDeriv(s, d, t) ==
    /\ Len(t) = Offset(s, d, Len(s))
    /\ \A i \in 1..Len(s) :
          SubSeq(t, Offset(s, d, i - 1) + 1, Offset(s, d, i)) = deriv(s[i], d)

Max(a, b) == IF a > b THEN a ELSE b

\* C2: construct(query) leaves the working set <<query>>; advance(d) replaces
\* the working set by the concatenation of deriv(q, d) over its elements q,
\* keeping no old element, and sets the peak counter to max(peak, new size).
C2_AdvanceReplaces ==
    /\ [](last = "new" => state = <<query>>)
    /\ [][last' = "update" =>
            /\ IsFlatDeriv(state, fed'[Len(fed')], state')
            /\ max_workingset' = Max(max_workingset, Len(state'))]_vars

\* Two advances were made and the working set has grown.
C2_Witness ==
    /\ last = "update"
    /\ Len(fed) >= 2
    /\ Len(state) >= 2
    /\ max_workingset = Len(state)

\* C3: value() changes neither the working set nor the peak counter, and a
\* value() that follows a value() returns the same result.
C3_ValueIsPure ==
    [][last' = "output" =>
          /\ UNCHANGED <<state, max_workingset>>
          /\ (last = "output" => ret' = ret)]_vars

\* value() was called twice in a row after an advance.
C3_Witness ==
    /\ last = "output"
    /\ calls = 2
    /\ Len(fed) >= 1
    /\ ret[1] = "Ok"

IsSat(q) == q.t = "Sat"

\* C4: on Sat{phi, op}, value() before any advance is Undefined; after the
\* single advance(d) it is op(d) when phi(d) holds and Undefined otherwise.
C4_SatAcceptance ==
    (IsSat(query) /\ last = "output") =>
        /\ (Len(fed) = 0 => ret = Undefined)
        /\ (Len(fed) = 1 /\ phi_call(query.phi, fed[1])
                => ret = Ok(op_call(query.op, fed[1])))
        /\ (Len(fed) = 1 /\ ~phi_call(query.phi, fed[1]) => ret = Undefined)

\* A Sat whose predicate failed on the item answered Undefined.
C4_Witness ==
    /\ IsSat(query)
    /\ last = "output"
    /\ Len(fed) = 1
    /\ ~phi_call(query.phi, fed[1])
    /\ ret = Undefined

RECURSIVE SumSeq(_)
SumSeq(xs) == IF xs = <<>> THEN 0 ELSE Head(xs) + SumSeq(Tail(xs))

\* C5: on the running_avg query, after the items 0, 1, ..., 100, value() is
\* 5050/101: the sum of the items over the number of items fed.
C5_RunningAvg ==
    (query = running_avg_q /\ fed = Script(running_avg_q) /\ last = "output")
        => ret = Ok(F64(SumSeq(fed), Len(fed)))

\* C6: on Iter{Sat{true, id}, Sat{true, id}, +}, after any non-empty sequence
\* of items exactly one epsilon value survives in a working set that has one
\* element per item fed, and value() is the sum of the items; after the items
\* 0, 1, ..., 100 it is 5050.
C6_RunningSum ==
    (query = main_r /\ Len(fed) >= 1) =>
        /\ Len(Results) = 1
        /\ Len(state) = Len(fed)
        /\ (last = "output" => ret = Ok(F64(SumSeq(fed), 1)))
        /\ (last = "output" /\ fed = [i \in 1..101 |-> i - 1]
                => ret = Ok(F64(5050, 1)))

\* The 101 items 0..100 were fed to the running sum and value() gave 5050.
C6_Witness ==
    /\ query = main_r
    /\ fed = [i \in 1..101 |-> i - 1]
    /\ Len(state) = 101
    /\ last = "output"
    /\ ret = Ok(F64(5050, 1))

IsChoiceOfTwoSat(q) ==
    /\ q.t = "Choice"
    /\ Len(q.v) = 2
    /\ IsSat(q.v[1])
    /\ IsSat(q.v[2])

\* Both branches of the Choice match item d, with different values.
Ambiguous(q, d) ==
    /\ phi_call(q.v[1].phi, d)
    /\ phi_call(q.v[2].phi, d)
    /\ op_call(q.v[1].op, d) # op_call(q.v[2].op, d)

\* C7: on a Choice of two Sat branches that both match item d with different
\* values, two epsilon values survive advance(d) and value() is Undefined.
C7_ChoiceAmbiguity ==
    (IsChoiceOfTwoSat(query) /\ Len(fed) = 1 /\ Ambiguous(query, fed[1])) =>
        /\ Len(Results) = 2
        /\ (last = "output" => ret = Undefined)

\* An ambiguous Choice was advanced once and value() failed.
C7_Witness ==
    /\ IsChoiceOfTwoSat(query)
    /\ Len(fed) = 1
    /\ Ambiguous(query, fed[1])
    /\ last = "output"
    /\ ret = Undefined

IsIterEps(q) == q.t = "Iter" /\ q.init.t = "Eps"

\* C8: on Iter{init = Eps{c}, body, combine}, value() before any advance is c.
C8_IterZeroRound ==
    (IsIterEps(query) /\ fed = <<>> /\ last = "output") => ret = Ok(query.init.c)

\* value() gave c on a loop whose body is itself a composite expression
\* with a different immediate value.
C8_Witness ==
    /\ IsIterEps(query)
    /\ fed = <<>>
    /\ last = "output"
    /\ ret = Ok(query.init.c)
    /\ query.body.t \in {"Choice", "Split", "Iter", "App", "Combine"}
    /\ epsilon(query.body) # <<>>
    /\ epsilon(query.body) # <<query.init.c>>

RECURSIVE IsPure(_)
IsPure(q) ==
    CASE q.t \in {"Bot", "Eps", "Sat"}       -> TRUE
      [] q.t \in {"Choice", "Split", "Iter"} -> FALSE
      [] q.t = "App"                         -> IsPure(q.f)
      [] q.t = "Combine"                     -> IsPure(q.f) /\ IsPure(q.g)

\* C9: for a query built from Bot, Eps, Sat, App and Combine only, the
\* working set never has more than 2 elements, and neither has its peak.
C9_BoundedGrowth ==
    IsPure(query) => (Len(state) <= 2 /\ max_workingset <= 2)

\* A nested App/Combine query was advanced as often as the bound allows.
C9_Witness ==
    /\ IsPure(query)
    /\ query.t = "Combine"
    /\ query.f.t \in {"App", "Combine"}
    /\ Len(fed) >= MaxFeed
    /\ Len(state) <= 2

\* C10: on the example14 query, after the items 5, 4, 3, 2, 1 exactly one
\* epsilon value survives and value() is avg(max(2, 1), min(2, 1)) = 3/2.
C10_Example14 ==
    (query = example14_r /\ fed = <<5, 4, 3, 2, 1>>) =>
        /\ Len(Results) = 1
        /\ (last = "output" =>
               /\ ret = Ok(F64(3, 2))
               /\ ret = Ok(avg(max_f64(F64(2, 1), F64(1, 1)),
                               min_f64(F64(2, 1), F64(1, 1)))))

\* example14 ran to its end and printed 3/2.
C10_Witness ==
    /\ query = example14_r
    /\ fed = <<5, 4, 3, 2, 1>>
    /\ last = "output"
    /\ ret = Ok(F64(3, 2))

IsSplitOfTwoSat(q) == q.t = "Split" /\ IsSat(q.f) /\ IsSat(q.g)

\* The left Sat matches the first and the right Sat the second of two items.
SplitMatches(q, ds) ==
    /\ Len(ds) = 2
    /\ phi_call(q.f.phi, ds[1])
    /\ phi_call(q.g.phi, ds[2])

\* C11: on Split{Sat{p1, e1}, Sat{p2, e2}, combine}, value() is defined
\* exactly after two items d1, d2 with p1(d1) and p2(d2), where it is
\* combine(e1(d1), e2(d2)); after zero, one, three or more items, or when a
\* predicate fails, it is Undefined.
C11_SplitSequencing ==
    (IsSplitOfTwoSat(query) /\ last = "output") =>
        /\ (SplitMatches(query, fed) =>
                ret = Ok(bin_call(query.op, op_call(query.f.op, fed[1]),
                                            op_call(query.g.op, fed[2]))))
        /\ (~SplitMatches(query, fed) => ret = Undefined)

\* Two matching items gave the value of the right item under pi2, which
\* differs from the value of the left item.
C11_Witness ==
    /\ IsSplitOfTwoSat(query)
    /\ query.op = "pi2"
    /\ last = "output"
    /\ SplitMatches(query, fed)
    /\ op_call(query.f.op, fed[1]) # op_call(query.g.op, fed[2])
    /\ ret = Ok(op_call(query.g.op, fed[2]))

\* xs is the row-major product of ls and rs under op: one value per pair of
\* an occurrence in ls and an occurrence in rs.
IsProduct(xs, ls, rs, op) ==
    /\ Len(xs) = Len(ls) * Len(rs)
    /\ \A i \in 1..Len(ls) : \A j \in 1..Len(rs) :
          xs[(i - 1) * Len(rs) + j] = bin_call(op, ls[i], rs[j])

\* C12: epsilon of Split{left, right, combine} holds combine(x, y) once for
\* every pair of an occurrence x of epsilon(left) and an occurrence y of
\* epsilon(right); its length is |epsilon(left)| * |epsilon(right)|.
C12_SplitEpsilonProduct ==
    \A i \in 1..Len(state) :
        state[i].t = "Split" =>
            IsProduct(epsilon(state[i]), epsilon(state[i].f),
                      epsilon(state[i].g), state[i].op)

\* value() was taken of a Split whose sides have two and three epsilon
\* values: six values result, not the four of the left side with itself.
C12_Witness ==
    /\ last = "output"
    /\ Len(state) = 1
    /\ state[1].t = "Split"
    /\ Len(epsilon(state[1].f)) = 2
    /\ Len(epsilon(state[1].g)) = 3
    /\ Len(Results) = 6
    /\ ret = Undefined

\* rs is one App per occurrence of epsilon(q.f), each binding that occurrence
\* as the first argument of q.op, and then exactly one Split with the right
\* part and the combiner of q.
IsSplitShape(q, rs) ==
    LET as == epsilon(q.f)
    IN  /\ Len(rs) = Len(as) + 1
        /\ \A k \in 1..Len(as) :
              rs[k].t = "App" /\ rs[k].op = closure(q.op, as[k])
        /\ rs[Len(rs)].t = "Split"
        /\ rs[Len(rs)].g = q.g
        /\ rs[Len(rs)].op = q.op

\* rs is |epsilon(q.init)| + 1 loops, each with the body and combiner of q.
IsIterShape(q, rs) ==
    /\ Len(rs) = Len(epsilon(q.init)) + 1
    /\ \A k \in 1..Len(rs) :
          rs[k].t = "Iter" /\ rs[k].body = q.body /\ rs[k].op = q.op

\* C13: for every item d, deriv of a Split has |epsilon(left)| + 1 residuals:
\* one App per occurrence in epsilon(left) and exactly one Split with right
\* and combine unchanged; deriv of an Iter has |epsilon(init)| + 1 residuals,
\* all of them Iter with body and combine unchanged.
C13_DerivShape ==
    \A i \in 1..Len(state) : \A d \in Items :
        /\ (state[i].t = "Split" => IsSplitShape(state[i], deriv(state[i], d)))
        /\ (state[i].t = "Iter" => IsIterShape(state[i], deriv(state[i], d)))

\* A Split whose left part has two epsilon values was advanced: two App
\* residuals and one Split residual make up the working set.
C13_Witness ==
    /\ last = "update"
    /\ Len(fed) = 1
    /\ query.t = "Split"
    /\ Len(epsilon(query.f)) = 2
    /\ Len(state) = 3
    /\ state[1].t = "App"
    /\ state[2].t = "App"
    /\ state[3].t = "Split"
    /\ state[3].g = query.g

\* The residuals in t of the element s[i], after advancing s by d.
Segment(s, d, t, i) == SubSeq(t, Offset(s, d, i - 1) + 1, Offset(s, d, i))

\* C14: on Eps{c}, value() is c before any advance and Undefined after every
\* advance; on Bot, value() is always Undefined; and a working-set element
\* that is Bot leaves exactly Bot after every further advance.
C14_EpsAndBotDead ==
    /\ []((query.t = "Eps" /\ last = "output") =>
            /\ (fed = <<>> => ret = Ok(query.c))
            /\ (fed # <<>> => ret = Undefined))
    /\ []((query = Bot /\ last = "output") => ret = Undefined)
    /\ [][last' = "update" =>
            \A i \in 1..Len(state) :
                state[i] = Bot =>
                    Segment(state, fed'[Len(fed')], state', i) = <<Bot>>]_vars

\* An Eps query was advanced to Bot, advanced again, and value() failed.
C14_Witness ==
    /\ query.t = "Eps"
    /\ Len(fed) >= 2
    /\ state = <<Bot>>
    /\ last = "output"
    /\ ret = Undefined

\* The number of nodes on the longest path from the root of q to a leaf,
\* and the largest such number in a list of expressions (0 for none).
RECURSIVE Depth(_)
RECURSIVE MaxDepth(_)

Depth(q) ==
    CASE q.t \in {"Bot", "Eps", "Sat"}       -> 1
      [] q.t = "Choice"                      -> 1 + MaxDepth(q.v)
      [] q.t \in {"Split", "Combine"}        -> 1 + Max(Depth(q.f), Depth(q.g))
      [] q.t = "Iter"                        -> 1 + Max(Depth(q.init), Depth(q.body))
      [] q.t = "App"                         -> 1 + Depth(q.f)

MaxDepth(v) ==
    IF v = <<>> THEN 0 ELSE Max(Depth(Head(v)), MaxDepth(Tail(v)))

\* C15, as claimed: an advance raises the maximum depth of the working set
\* by at most one level.
C15_DepthPlusOne ==
    [][MaxDepth(state') <= MaxDepth(state) + 1]_vars

\* C15, amended: an advance that leaves a non-empty working set raises its
\* maximum depth to at most three times the maximum before, minus two; a
\* rise of more than one level happens.
C15_DepthBound ==
    [][state' # <<>> => MaxDepth(state') <= 3 * MaxDepth(state) - 2]_vars

\* One advance took a loop of depth 2 to a working set of depth 4: the
\* bound is reached and the rise is two levels.
C15_Witness ==
    /\ last = "update"
    /\ Len(fed) = 1
    /\ query.t = "Iter"
    /\ Depth(query) = 2
    /\ MaxDepth(state) = 4

\* C16, as claimed: the working set is never empty; before any advance it
\* has size 1 and the peak counter is 0; after every advance the peak
\* counter equals the size of the working set.
C16_NeverPruned ==
    /\ Len(state) >= 1
    /\ (fed = <<>> => Len(state) = 1 /\ max_workingset = 0)
    /\ (fed # <<>> => max_workingset = Len(state))

\* A Choice with no alternative that leaves a residual: Choice{[]}, or a
\* Choice of such Choices.
RECURSIVE IsVoid(_)
IsVoid(q) ==
    /\ q.t = "Choice"
    /\ \A k \in 1..Len(q.v) : IsVoid(q.v[k])

\* C16, amended: deriv returns no residual for a Choice without residual-
\* leaving alternatives and at least one residual for every other
\* expression.  Unless the query is such a Choice, the working set is never
\* empty and its size never decreases across an advance; for such a query it
\* is empty after the first advance.  In both cases the peak counter is 0
\* with a working set of size 1 before any advance, and equals the size of
\* the working set after every advance.
C16_PrunedOnlyEmptyChoice ==
    /\ [](\A i \in 1..Len(state) : \A d \in Items :
             (deriv(state[i], d) = <<>>) <=> IsVoid(state[i]))
    /\ [](~IsVoid(query) => Len(state) >= 1)
    /\ []((IsVoid(query) /\ fed # <<>>) => state = <<>>)
    /\ [](fed = <<>> => Len(state) = 1 /\ max_workingset = 0)
    /\ [](fed # <<>> => max_workingset = Len(state))
    /\ [][~IsVoid(query) => Len(state') >= Len(state)]_vars

\* A Sat whose predicate failed twice is still in the working set as Bot,
\* and the peak counter equals the size of the working set.
C16_Witness ==
    /\ IsSat(query)
    /\ Len(fed) >= 2
    /\ \A k \in 1..Len(fed) : ~phi_call(query.phi, fed[k])
    /\ state = <<Bot>>
    /\ max_workingset = 1

====
